---- MODULE Spec2Model ----
(***************************************************************************)
(* Model of src/trading_strategies.py: the six strategies of               *)
(* TradingStrategies (each writes indicator and signal columns into the    *)
(* DataFrame it is given and returns that same DataFrame), and the         *)
(* bar-by-bar simulation of BacktestExecutor.execute_backtest.             *)
(*                                                                         *)
(* Numbers.  Prices are integers.  Money (capital, cost, proceeds, equity) *)
(* is held in units of 1/Scale, so that the commission and slippage rates  *)
(* (multiples of 1/Scale) act exactly: a stored value v stands for the     *)
(* amount v / Scale.  Indicator values are exact rationals or NaN.         *)
(***************************************************************************)
EXTENDS Integers, Sequences, FiniteSets, TLC

\* ------------------------------------------------------------------ bounds
\* longest signal series given to execute_backtest in Spec
MaxBars == 3
\* longest price series given to the strategies in SpecStrategy
MaxLen == 3
\* longest price series given to moving_average_crossover in SpecCrossover
MaxCrossLen == 4
\* bars of the constant price series of SpecScenarioB
ScenarioBars == 30
\* execute_strategy calls made on one price series
MaxCalls == 2
\* largest moving-average window tried in SpecCrossover
MaxPeriod == 3
\* Scenario A's windows of the fast and the slow moving average
ScenarioFast == 3
ScenarioSlow == 5
\* longest equity curve and longest trade log given to the metrics alone
MaxCurve == 3
MaxTrades == 2

\* ------------------------------------------------------- program constants
\* money unit: 1/Scale, the grid of the rates 0.001 and 0.0005
Scale == 10000
\* self.default_commission = 0.001, in units of 1/Scale
default_commission == 10
\* self.default_slippage = 0.0005, in units of 1/Scale
default_slippage == 5
\* the 0.95 of int(capital * 0.95 / price), as BufferNum / BufferDen
BufferNum == 19
BufferDen == 20

\* ------------------------------------------------------------ input sets
\* closing prices of a bar; zero and negative prices are not validated
Prices == {-1, 0, 2, 3}
Signals == {-1, 0, 1}
InitialCapitals == {2, 100}
\* (commission, slippage): no fees, and the default rates
Fees == {<<0, 0>>, <<default_commission, default_slippage>>}
\* config dictionaries given to execute_backtest (initial_capital in units of 1)
Configs ==
    { [initial_capital |-> c, commission |-> f[1], slippage |-> f[2]] :
      c \in InitialCapitals, f \in Fees }

\* ------------------------------------------------------------ arithmetic
Abs(x) == IF x < 0 THEN -x ELSE x

Sign(x) == IF x > 0 THEN 1 ELSE IF x < 0 THEN -1 ELSE 0

\* Python's int() of the quotient a / b: truncation toward zero (b # 0)
TruncDiv(a, b) == Sign(a) * Sign(b) * (Abs(a) \div Abs(b))

\* the mathematical floor of a / b (b # 0)
FloorDiv(a, b) ==
    LET q == TruncDiv(a, b)
    IN  IF q * b # a /\ Sign(a) * Sign(b) < 0 THEN q - 1 ELSE q

\* s.iloc[-1] and s[-1]
Last(s) == s[Len(s)]

\* -------------------------------------------------------------- the heap
\* A DataFrame is an object on the heap; `data` and `signals` are references.
\* A frame is [Close, cols, col]: the Close column, the names of the columns
\* the strategies have added, and the values of those added columns whose
\* values the model holds.  bb_upper, bb_lower, bb_width, price_ma and rsi_ma
\* are held by name only: the band comparisons are computed exactly from the
\* window (AtOrBelowLower, AtOrAboveUpper, NearLower, NearUpper), and the
\* other three are read by no code.
VARIABLES
    heap,       \* object id -> DataFrame
    data,       \* reference: the caller's price DataFrame
    signals,    \* reference: the DataFrame execute_strategy returned (None before)
    call,       \* the arguments of the latest execute_strategy call
    ncalls,     \* execute_strategy calls made
    error,      \* the exception that ended the run, "none" while there is none
    config,     \* the config dictionary of execute_backtest
    pc,         \* position in execute_backtest
    i,          \* bars processed by the loop of execute_backtest
    capital,    \* local capital (units of 1/Scale)
    shares,     \* local shares
    trades,     \* local trades
    equity,     \* local equity (units of 1/Scale)
    positions,  \* local positions
    result      \* the dictionary execute_backtest returns (NoResult before)

vars ==
    <<heap, data, signals, call, ncalls, error, config, pc, i, capital, shares, trades,
      equity, positions, result>>

\* ------------------------------------------------------- indicator values
\* A value of an indicator column: a rational n/d (d > 0), NaN, +-infinity
\* (n = 1 or -1), or the square root of a rational n/d.
NaN == [k |-> "nan", n |-> 0, d |-> 1]
Num(n, d) == [k |-> "num", n |-> n, d |-> d]
Inf(s) == [k |-> "inf", n |-> s, d |-> 1]
Sqrt(n, d) == [k |-> "sqrt", n |-> n, d |-> d]

IsNaN(v) == v.k = "nan"

RECURSIVE Gcd(_, _)
Gcd(a, b) == IF b = 0 THEN a ELSE Gcd(b, a % b)

\* n/d in lowest terms, d > 0
Reduced(n, d) ==
    LET g == Gcd(Abs(n), d)
    IN  IF n = 0 THEN Num(0, 1) ELSE Num(n \div g, d \div g)

\* float division n / d of two integers: x/0 is inf, -inf or (0/0) NaN
Frac(n, d) ==
    IF d = 0 THEN (IF n = 0 THEN NaN ELSE Inf(Sign(n)))
    ELSE Reduced(n * Sign(d), Abs(d))

\* a > b on floats: False when either side is NaN
Gt(a, b) ==
    /\ ~IsNaN(a) /\ ~IsNaN(b)
    /\ IF a.k = "inf" THEN a.n = 1 /\ ~(b.k = "inf" /\ b.n = 1)
       ELSE IF b.k = "inf" THEN b.n = -1
       ELSE a.n * b.d > b.n * a.d

Lt(a, b) == Gt(b, a)
Ge(a, b) == ~IsNaN(a) /\ ~IsNaN(b) /\ ~Gt(b, a)
Le(a, b) == Ge(b, a)

\* a - b, a + b on floats (inf - inf is NaN)
Sub(a, b) ==
    IF IsNaN(a) \/ IsNaN(b) THEN NaN
    ELSE IF a.k = "inf" THEN (IF b.k = "inf" /\ b.n = a.n THEN NaN ELSE a)
    ELSE IF b.k = "inf" THEN Inf(-b.n)
    ELSE Reduced(a.n * b.d - b.n * a.d, a.d * b.d)

RECURSIVE SumRange(_, _, _)
\* x[a] + ... + x[b]
SumRange(x, a, b) == IF a > b THEN 0 ELSE x[b] + SumRange(x, a, b - 1)

RECURSIVE SumSquares(_, _, _)
\* x[a]^2 + ... + x[b]^2
SumSquares(x, a, b) == IF a > b THEN 0 ELSE x[b] * x[b] + SumSquares(x, a, b - 1)

\* x.rolling(window=w).mean() of an integer column: NaN in the first w - 1 places
rolling_mean(x, w) ==
    [t \in 1..Len(x) |-> IF t < w THEN NaN ELSE Reduced(SumRange(x, t - w + 1, t), w)]

\* n * (sum of squares) - (sum)^2 over the window ending at t: n(n-1) times
\* the sample variance of the window
VarNum(x, w, t) ==
    w * SumSquares(x, t - w + 1, t) - SumRange(x, t - w + 1, t) * SumRange(x, t - w + 1, t)

\* x.rolling(window=w).std() (ddof = 1): NaN in the first w - 1 places and for w = 1
rolling_std(x, w) ==
    [t \in 1..Len(x) |->
        IF t < w \/ w < 2 THEN NaN
        ELSE LET r == Reduced(VarNum(x, w, t), w * (w - 1)) IN Sqrt(r.n, r.d)]

\* series.diff() of an integer column
diff(x) == [t \in 1..Len(x) |-> IF t = 1 THEN NaN ELSE Num(x[t] - x[t - 1], 1)]

\* -------------------------------------------------------------- DataFrames
\* params.get(key, default); params is None reads as the empty dictionary,
\* whose every key takes the same default
Get(params, key, default) == IF key \in DOMAIN params THEN params[key] ELSE default

NoParams == [key \in {} |-> 0]

\* data[name] = values
SetColumn(df, name, values) ==
    [df EXCEPT !.cols = @ \cup {name},
               !.col = [c \in DOMAIN @ \cup {name} |-> IF c = name THEN values ELSE @[c]]]

\* data[name] = ..., for a column whose values the model does not hold
AddColumn(df, name) == [df EXCEPT !.cols = @ \cup {name}]

RECURSIVE AddColumns(_, _)
AddColumns(df, names) ==
    IF names = <<>> THEN df ELSE AddColumns(AddColumn(df, Head(names)), Tail(names))

\* data['position'] = data['signal'].diff()
WithPosition(df) == SetColumn(df, "position", diff(df.col.signal))

\* ------------------------------------------------ moving_average_crossover
ma_default_fast_period == 10
ma_default_slow_period == 20

\* faulty variant: the buy comparison is >= instead of >
CrossoverSignal_GE(fast_ma, slow_ma) ==
    LET signal0 == [t \in 1..Len(fast_ma) |-> 0]
        signal1 == [t \in 1..Len(fast_ma) |->
                      IF Ge(fast_ma[t], slow_ma[t]) THEN 1 ELSE signal0[t]]
    IN  [t \in 1..Len(fast_ma) |-> IF Lt(fast_ma[t], slow_ma[t]) THEN -1 ELSE signal1[t]]

\* faulty variant: the two signs are exchanged
CrossoverSignal_Reversed(fast_ma, slow_ma) ==
    [t \in 1..Len(fast_ma) |->
        IF Gt(fast_ma[t], slow_ma[t]) THEN -1
        ELSE IF Lt(fast_ma[t], slow_ma[t]) THEN 1 ELSE 0]

\* data['signal'] = 0; then 1 where fast_ma > slow_ma; then -1 where fast_ma < slow_ma
CrossoverSignal(fast_ma, slow_ma) ==
    LET signal0 == [t \in 1..Len(fast_ma) |-> 0]
        signal1 == [t \in 1..Len(fast_ma) |->
                      IF Gt(fast_ma[t], slow_ma[t]) THEN 1 ELSE signal0[t]]
    IN  [t \in 1..Len(fast_ma) |-> IF Lt(fast_ma[t], slow_ma[t]) THEN -1 ELSE signal1[t]]

moving_average_crossover(df, params) ==
    LET fast_period == Get(params, "fast_period", ma_default_fast_period)
        slow_period == Get(params, "slow_period", ma_default_slow_period)
        fast_ma == rolling_mean(df.Close, fast_period)
        slow_ma == rolling_mean(df.Close, slow_period)
        df1 == SetColumn(SetColumn(df, "fast_ma", fast_ma), "slow_ma", slow_ma)
        df2 == SetColumn(df1, "signal", CrossoverSignal(fast_ma, slow_ma))
    IN  WithPosition(df2)

\* ---------------------------------------------------------- Bollinger bands
\* Close <= bb_middle - k * bb_std at bar t, for the window w and k >= 0:
\* with S, Q the window's sum and sum of squares, k * std <= S/w - c, that is
\* S - w*c >= 0 and k^2 * w * (w*Q - S^2) <= (w - 1) * (S - w*c)^2.
\* False while either band is NaN (t < w, or w = 1).
AtOrBelowLower(x, w, k, t) ==
    /\ t >= w /\ w >= 2
    /\ LET gap == SumRange(x, t - w + 1, t) - w * x[t]
       IN  gap >= 0 /\ k * k * w * VarNum(x, w, t) <= (w - 1) * gap * gap

\* Close >= bb_middle + k * bb_std at bar t
AtOrAboveUpper(x, w, k, t) ==
    /\ t >= w /\ w >= 2
    /\ LET gap == w * x[t] - SumRange(x, t - w + 1, t)
       IN  gap >= 0 /\ k * k * w * VarNum(x, w, t) <= (w - 1) * gap * gap

bb_default_period == 20
bb_default_std == 2

\* faulty variant: the two assignments are made in the other order (the buy wins)
BollingerSignal_BuyLast(x, w, k) ==
    LET signal0 == [t \in 1..Len(x) |-> 0]
        signal1 == [t \in 1..Len(x) |-> IF AtOrAboveUpper(x, w, k, t) THEN -1 ELSE signal0[t]]
    IN  [t \in 1..Len(x) |-> IF AtOrBelowLower(x, w, k, t) THEN 1 ELSE signal1[t]]

\* data['signal'] = 0; then 1 where Close <= bb_lower; then -1 where Close >= bb_upper
BollingerSignal(x, w, k) ==
    LET signal0 == [t \in 1..Len(x) |-> 0]
        signal1 == [t \in 1..Len(x) |-> IF AtOrBelowLower(x, w, k, t) THEN 1 ELSE signal0[t]]
    IN  [t \in 1..Len(x) |-> IF AtOrAboveUpper(x, w, k, t) THEN -1 ELSE signal1[t]]

bollinger_bands(df, params) ==
    LET period == Get(params, "period", bb_default_period)
        std == Get(params, "std", bb_default_std)
        df1 == SetColumn(df, "bb_middle", rolling_mean(df.Close, period))
        df2 == SetColumn(df1, "bb_std", rolling_std(df.Close, period))
        df3 == AddColumns(df2, <<"bb_upper", "bb_lower", "bb_width">>)
        df4 == SetColumn(df3, "signal", BollingerSignal(df.Close, period, std))
    IN  WithPosition(df4)

\* ----------------------------------------------------------------- momentum
momentum_default_lookback_period == 20
\* thresholds are held in hundredths: the default 0.05 is 5 / ThresholdDen
momentum_default_threshold == 5
ThresholdDen == 100

\* x.pct_change(periods=p): x / x.shift(p) - 1
pct_change(x, p) ==
    [t \in 1..Len(x) |-> IF t <= p THEN NaN ELSE Sub(Frac(x[t], x[t - p]), Num(1, 1))]

momentum(df, params) ==
    LET lookback_period == Get(params, "lookback_period", momentum_default_lookback_period)
        threshold == Get(params, "threshold", momentum_default_threshold)
        mom == pct_change(df.Close, lookback_period)
        n == Len(df.Close)
        signal0 == [t \in 1..n |-> 0]
        signal1 == [t \in 1..n |->
                      IF Gt(mom[t], Num(threshold, ThresholdDen)) THEN 1 ELSE signal0[t]]
        signal2 == [t \in 1..n |->
                      IF Lt(mom[t], Num(-threshold, ThresholdDen)) THEN -1 ELSE signal1[t]]
    IN  WithPosition(SetColumn(SetColumn(df, "momentum", mom), "signal", signal2))

\* ---------------------------------------------------------------------- RSI
\* delta.where(delta > 0, 0): the rise of each bar, 0 for the first bar (NaN delta)
gain_of(x) == [t \in 1..Len(x) |-> IF t > 1 /\ x[t] > x[t - 1] THEN x[t] - x[t - 1] ELSE 0]

\* -delta.where(delta < 0, 0): the fall of each bar
loss_of(x) == [t \in 1..Len(x) |-> IF t > 1 /\ x[t] < x[t - 1] THEN x[t - 1] - x[t] ELSE 0]

\* 100 - (100 / (1 + rs)): 100 - 100/inf is 100, NaN stays NaN
rsi_from_rs(rs) ==
    IF IsNaN(rs) THEN NaN
    ELSE IF rs.k = "inf" THEN Num(100, 1)
    ELSE Sub(Num(100, 1), Frac(100 * rs.d, rs.d + rs.n))

\* rs = gain / loss of the rolling means (the window length cancels), then the RSI
rsi_of(x, period) ==
    [t \in 1..Len(x) |->
        IF t < period THEN NaN
        ELSE rsi_from_rs(Frac(SumRange(gain_of(x), t - period + 1, t),
                              SumRange(loss_of(x), t - period + 1, t)))]

\* ----------------------------------------------------------- mean_reversion
mr_default_bb_period == 20
mr_default_bb_std == 2
mr_default_rsi_period == 14
mr_default_rsi_overbought == 70
mr_default_rsi_oversold == 30

\* Close <= bb_lower * 1.01 at bar t: 101 * k * std <= (101*S - 100*w*c) / w
NearLower(x, w, k, t) ==
    /\ t >= w /\ w >= 2
    /\ LET gap == 101 * SumRange(x, t - w + 1, t) - 100 * w * x[t]
       IN  gap >= 0 /\ 101 * 101 * k * k * w * VarNum(x, w, t) <= (w - 1) * gap * gap

\* Close >= bb_upper * 0.99 at bar t: 99 * k * std <= (100*w*c - 99*S) / w
NearUpper(x, w, k, t) ==
    /\ t >= w /\ w >= 2
    /\ LET gap == 100 * w * x[t] - 99 * SumRange(x, t - w + 1, t)
       IN  gap >= 0 /\ 99 * 99 * k * k * w * VarNum(x, w, t) <= (w - 1) * gap * gap

mean_reversion(df, params) ==
    LET bb_period == Get(params, "bb_period", mr_default_bb_period)
        bb_std == Get(params, "bb_std", mr_default_bb_std)
        rsi_period == Get(params, "rsi_period", mr_default_rsi_period)
        rsi_overbought == Get(params, "rsi_overbought", mr_default_rsi_overbought)
        rsi_oversold == Get(params, "rsi_oversold", mr_default_rsi_oversold)
        x == df.Close
        n == Len(x)
        rsi == rsi_of(x, rsi_period)
        df1 == SetColumn(df, "bb_middle", rolling_mean(x, bb_period))
        df2 == SetColumn(df1, "bb_std", rolling_std(x, bb_period))
        df3 == SetColumn(AddColumns(df2, <<"bb_upper", "bb_lower">>), "rsi", rsi)
        signal0 == [t \in 1..n |-> 0]
        signal1 == [t \in 1..n |->
                      IF NearLower(x, bb_period, bb_std, t) /\ Le(rsi[t], Num(rsi_oversold, 1))
                      THEN 1 ELSE signal0[t]]
        signal2 == [t \in 1..n |->
                      IF NearUpper(x, bb_period, bb_std, t) /\ Ge(rsi[t], Num(rsi_overbought, 1))
                      THEN -1 ELSE signal1[t]]
    IN  WithPosition(SetColumn(df3, "signal", signal2))

\* ----------------------------------------------------------- rsi_divergence
rd_default_period == 14
rd_default_divergence_period == 20

rsi_divergence(df, params) ==
    LET period == Get(params, "period", rd_default_period)
        divergence_period == Get(params, "divergence_period", rd_default_divergence_period)
        x == df.Close
        n == Len(x)
        rsi == rsi_of(x, period)
        df1 == AddColumns(SetColumn(df, "rsi", rsi), <<"price_ma", "rsi_ma">>)
        signal0 == [t \in 1..n |-> 0]
        \* comparisons with a shifted value are False in the first divergence_period bars
        signal1 == [t \in 1..n |->
                      IF /\ t > divergence_period
                         /\ x[t] < x[t - divergence_period]
                         /\ Gt(rsi[t], rsi[t - divergence_period])
                         /\ Lt(rsi[t], Num(40, 1))
                      THEN 1 ELSE signal0[t]]
        signal2 == [t \in 1..n |->
                      IF /\ t > divergence_period
                         /\ x[t] > x[t - divergence_period]
                         /\ Lt(rsi[t], rsi[t - divergence_period])
                         /\ Gt(rsi[t], Num(60, 1))
                      THEN -1 ELSE signal1[t]]
    IN  WithPosition(SetColumn(df1, "signal", signal2))

\* ----------------------------------------------------------- macd_crossover
macd_default_fast == 12
macd_default_slow == 26
macd_default_signal == 9

RECURSIVE EwmAt(_, _, _)
\* x.ewm(span=span, adjust=False).mean() at bar t, with alpha = 2 / (span + 1):
\* y[1] = x[1], y[t] = ((span - 1) * y[t-1] + 2 * x[t]) / (span + 1)
EwmAt(x, span, t) ==
    IF t = 1 THEN x[1]
    ELSE LET y == EwmAt(x, span, t - 1)
         IN  Reduced((span - 1) * y.n * x[t].d + 2 * x[t].n * y.d, (span + 1) * y.d * x[t].d)

ewm_mean(x, span) == [t \in 1..Len(x) |-> EwmAt(x, span, t)]

macd_crossover(df, params) ==
    LET fast == Get(params, "fast", macd_default_fast)
        slow == Get(params, "slow", macd_default_slow)
        signal == Get(params, "signal", macd_default_signal)
        n == Len(df.Close)
        close == [t \in 1..n |-> Num(df.Close[t], 1)]
        exp1 == ewm_mean(close, fast)
        exp2 == ewm_mean(close, slow)
        macd == [t \in 1..n |-> Sub(exp1[t], exp2[t])]
        macd_signal == ewm_mean(macd, signal)
        macd_histogram == [t \in 1..n |-> Sub(macd[t], macd_signal[t])]
        df1 == SetColumn(SetColumn(SetColumn(df, "macd", macd), "macd_signal", macd_signal),
                         "macd_histogram", macd_histogram)
        signal0 == [t \in 1..n |-> 0]
        \* the shifted comparison is False at the first bar
        signal1 == [t \in 1..n |->
                      IF /\ Gt(macd[t], macd_signal[t])
                         /\ t > 1 /\ Le(macd[t - 1], macd_signal[t - 1])
                      THEN 1 ELSE signal0[t]]
        signal2 == [t \in 1..n |->
                      IF /\ Lt(macd[t], macd_signal[t])
                         /\ t > 1 /\ Ge(macd[t - 1], macd_signal[t - 1])
                      THEN -1 ELSE signal1[t]]
    IN  WithPosition(SetColumn(df1, "signal", signal2))

\* --------------------------------------------------------- execute_strategy
\* the keys of self.strategies
StrategyIds ==
    {"moving-average-crossover", "mean-reversion", "momentum", "bollinger-bands",
     "rsi-divergence", "macd-crossover"}

\* self.strategies[strategy_name](data, params)
Dispatch(strategy_name, df, params) ==
    CASE strategy_name = "moving-average-crossover" -> moving_average_crossover(df, params)
      [] strategy_name = "mean-reversion" -> mean_reversion(df, params)
      [] strategy_name = "momentum" -> momentum(df, params)
      [] strategy_name = "bollinger-bands" -> bollinger_bands(df, params)
      [] strategy_name = "rsi-divergence" -> rsi_divergence(df, params)
      [] strategy_name = "macd-crossover" -> macd_crossover(df, params)

\* the reference `None`
None == 0

\* faulty variant: an unknown name falls back to the first registered strategy
execute_strategy_Fallback(strategy_name, h, ref, params) ==
    IF strategy_name \notin StrategyIds
    THEN [heap |-> [h EXCEPT ![ref] = moving_average_crossover(h[ref], params)],
          ret |-> ref, error |-> "none"]
    ELSE [heap |-> [h EXCEPT ![ref] = Dispatch(strategy_name, h[ref], params)],
          ret |-> ref, error |-> "none"]

\* execute_strategy(strategy_name, data, params) on the heap h, data being the
\* reference ref: the heap afterwards, the reference returned, the exception raised.
\* The strategy writes its columns into the object it is given and returns it.
execute_strategy(strategy_name, h, ref, params) ==
    IF strategy_name \notin StrategyIds
    THEN [heap |-> h, ret |-> None, error |-> "ValueError"]
    ELSE [heap |-> [h EXCEPT ![ref] = Dispatch(strategy_name, h[ref], params)],
          ret |-> ref, error |-> "none"]

\* ------------------------------------------------- execute_backtest: parts
\* faulty variant: the purchase is not limited to a flat position
BuyCondition_AnyHolding(sig, held) == sig = 1

\* signal['signal'] == 1 and shares == 0
BuyCondition(sig, held) == sig = 1 /\ held = 0

\* signal['signal'] == -1 and shares > 0
SellCondition(sig, held) == sig = -1 /\ held > 0

\* faulty variant: the whole capital is spent, without the 5% buffer
shares_to_buy_NoBuffer(cap, price) == TruncDiv(cap, Scale * price)

\* int(capital * 0.95 / price), for price # 0
shares_to_buy(cap, price) == TruncDiv(cap * BufferNum, BufferDen * Scale * price)

\* faulty variant: `if shares_to_buy:` (any non-zero count)
BuyGuard_NonZero(n) == n # 0

\* if shares_to_buy > 0
BuyGuard(n) == n > 0

\* cost = shares_to_buy * price * (1 + commission + slippage)
Cost(n, price, cfg) == n * price * (Scale + cfg.commission + cfg.slippage)

\* faulty variant: slippage is not charged on a sale
Proceeds_NoSlippage(held, price, cfg) == held * price * (Scale - cfg.commission)

\* proceeds = shares * price * (1 - commission - slippage)
Proceeds(held, price, cfg) == held * price * (Scale - cfg.commission - cfg.slippage)

\* the BUY dictionary appended to trades; capital is the capital after the purchase
BuyTrade(date, n, price, cost, capAfter) ==
    [date |-> date, type |-> "BUY", shares |-> n, price |-> price, cost |-> cost,
     capital |-> capAfter + n * price * Scale]

\* the SELL dictionary appended to trades; capital is the capital after the sale
SellTrade(date, held, price, proceeds, capAfter) ==
    [date |-> date, type |-> "SELL", shares |-> held, price |-> price,
     proceeds |-> proceeds, capital |-> capAfter]

\* faulty variant: the market value of the holding is left out
current_equity_CashOnly(cap, held, price) == cap

\* current_equity = capital + shares * price
current_equity(cap, held, price) == cap + held * price * Scale

\* faulty variant: the final position is never sold
LiquidationGuard_Never(held) == FALSE

\* if shares > 0, after the loop
LiquidationGuard(held) == held > 0

\* -------------------------------------------- calculate_performance_metrics
\* The fields of the returned dictionary that are rational in the inputs are
\* held; volatility, sharpe_ratio and sortino_ratio (square roots of a
\* variance) and daily_returns are not.
\* the quotient a / b of two values, held unevaluated
Quot(a, b) == [k |-> "quot", n |-> a, d |-> b]

\* abs(v)
AbsVal(v) == IF v.k = "nan" THEN v ELSE [v EXCEPT !.n = Abs(@)]

\* v * a / b for positive integers a, b
Scaled(v, a, b) == IF v.k = "num" THEN Reduced(v.n * a, v.d * b) ELSE v

RECURSIVE PeakAt(_, _)
\* np.maximum.accumulate(equity_array)[t]
PeakAt(eq, t) ==
    IF t = 1 THEN eq[1]
    ELSE LET p == PeakAt(eq, t - 1) IN IF eq[t] > p THEN eq[t] ELSE p

\* drawdown = (equity_array - peak) / peak
drawdown(eq) == [t \in 1..Len(eq) |-> Frac(eq[t] - PeakAt(eq, t), PeakAt(eq, t))]

RECURSIVE LtRatio(_, _, _, _)
\* a / b < c / d for b, d > 0, by integer parts (no product of the terms is formed)
LtRatio(a, b, c, d) ==
    LET qa == FloorDiv(a, b)
        qc == FloorDiv(c, d)
        ra == a - qa * b
        rc == c - qc * d
    IN  IF qa # qc THEN qa < qc
        ELSE IF rc = 0 THEN FALSE
        ELSE IF ra = 0 THEN TRUE
        ELSE LtRatio(d, rc, b, ra)

\* x < y as numpy orders two values: nothing is below NaN, -inf is below the rest
Below(x, y) ==
    IF IsNaN(x) \/ IsNaN(y) THEN FALSE
    ELSE IF x.k = "inf" \/ y.k = "inf" THEN Lt(x, y)
    ELSE LtRatio(x.n, x.d, y.n, y.d)

RECURSIVE MinUpTo(_, _)
\* np.min of the first t values: NaN when any of them is NaN
MinUpTo(x, t) ==
    IF t = 1 THEN x[1]
    ELSE LET m == MinUpTo(x, t - 1)
         IN  IF IsNaN(m) \/ IsNaN(x[t]) THEN NaN ELSE IF Below(x[t], m) THEN x[t] ELSE m

\* max_drawdown = np.min(drawdown)
max_drawdown(eq) == MinUpTo(drawdown(eq), Len(eq))

\* total_return = (final_capital - initial_capital) / initial_capital
total_return(final, cfg) == Frac(final - cfg.initial_capital * Scale, cfg.initial_capital * Scale)

\* faulty variant: the zero-drawdown test is missing, and x / 0 is inf or NaN
calmar_ratio_NoFallback(tr, md) ==
    IF IsNaN(md) \/ IsNaN(tr) THEN NaN
    ELSE IF md.k = "inf" THEN Num(0, 1)
    ELSE IF md.n = 0 THEN (IF tr.n = 0 THEN NaN ELSE Inf(Sign(tr.n)))
    ELSE Quot(Scaled(tr, 252, 365), AbsVal(md))

\* calmar_ratio = (total_return * 252 / 365) / abs(max_drawdown) if max_drawdown != 0 else 0
calmar_ratio(tr, md) ==
    IF md.k = "num" /\ md.n = 0 THEN Num(0, 1)
    ELSE IF IsNaN(md) \/ IsNaN(tr) THEN NaN
    ELSE IF md.k = "inf" THEN Num(0, 1)
    ELSE Quot(Scaled(tr, 252, 365), AbsVal(md))

\* sell_trades = [t for t in trades if t['type'] == 'SELL']
sell_trades(log) == SelectSeq(log, LAMBDA t : t.type = "SELL")

\* faulty variant: a sale wins when its proceeds exceed the cost of the purchase before it
winning_trades_OverCost(log) ==
    Cardinality({k \in 1..Len(log) :
        log[k].type = "SELL" /\ k > 1 /\ log[k].proceeds > log[k - 1].cost})

\* winning_trades = len([t for t in sell_trades if t['proceeds'] > 0])
winning_trades(log) ==
    Cardinality({k \in 1..Len(log) : log[k].type = "SELL" /\ log[k].proceeds > 0})

\* win_rate = winning_trades / total_trades if total_trades > 0 else 0
win_rate(log) ==
    IF Len(sell_trades(log)) > 0 THEN Frac(winning_trades(log), Len(sell_trades(log)))
    ELSE Num(0, 1)

\* final_capital = equity[-1]
final_capital(eq) == Last(eq)

\* no dictionary returned yet
NoResult == [returned |-> FALSE]

\* the dictionary calculate_performance_metrics(equity, trades, positions, config) returns
calculate_performance_metrics(eq, log, cfg) ==
    LET tr == total_return(final_capital(eq), cfg)
        md == max_drawdown(eq)
        cr == calmar_ratio(tr, md)
        wr == win_rate(log)
    IN  [returned |-> TRUE,
         summary |->
           [initial_capital |-> cfg.initial_capital * Scale,
            final_capital |-> final_capital(eq),
            total_return |-> Scaled(tr, 100, 1),
            absolute_return |-> final_capital(eq) - cfg.initial_capital * Scale,
            calmar_ratio |-> cr,
            max_drawdown |-> Scaled(md, 100, 1),
            win_rate |-> Scaled(wr, 100, 1),
            total_trades |-> Len(sell_trades(log))],
         equity |-> eq,
         trades |-> log,
         metrics |-> [calmar_ratio |-> cr, max_drawdown |-> md, win_rate |-> wr]]

\* ------------------------------------------------------------------- Init
\* no execute_strategy call made yet
NoCall == [strategy_name |-> "", params |-> NoParams]

\* execute_backtest is entered with a signals DataFrame that holds a Close
\* and a signal column; data is the same object, as every strategy returns
\* the DataFrame it was given.
SignalFrames ==
    UNION { { [Close |-> c, cols |-> {"signal"}, col |-> [signal |-> s]] :
              c \in [1..n -> Prices], s \in [1..n -> Signals] } : n \in 0..MaxBars }

Init ==
    /\ heap \in [{1} -> SignalFrames]
    /\ data = 1
    /\ signals = 1
    /\ call = NoCall
    /\ ncalls = 0
    /\ error = "none"
    /\ config \in Configs
    /\ pc = "loop"
    /\ i = 0
    /\ capital = config.initial_capital * Scale
    /\ shares = 0
    /\ trades = <<>>
    /\ equity = <<config.initial_capital * Scale>>
    /\ positions = <<>>
    /\ result = NoResult

\* ---------------------------------------------------------------- actions
\* one iteration of `for i in range(len(signals))`
LoopBody ==
    /\ pc = "loop"
    /\ i < Len(heap[signals].Close)
    /\ LET price == heap[signals].Close[i + 1]
           sig == heap[signals].col.signal[i + 1]
           date == i + 1
       IN  IF BuyCondition(sig, shares) /\ price = 0
           THEN \* capital * 0.95 / 0 is inf or nan, and int() of it raises
                /\ pc' = "raised"
                /\ error' = IF capital = 0 THEN "ValueError" ELSE "OverflowError"
                /\ UNCHANGED <<i, capital, shares, trades, equity, positions>>
           ELSE LET n == IF BuyCondition(sig, shares) THEN shares_to_buy(capital, price) ELSE 0
                    buys == BuyCondition(sig, shares) /\ BuyGuard(n)
                    sells == ~BuyCondition(sig, shares) /\ SellCondition(sig, shares)
                    cost == Cost(n, price, config)
                    proceeds == Proceeds(shares, price, config)
                    capital2 == IF buys THEN capital - cost
                                ELSE IF sells THEN capital + proceeds ELSE capital
                    shares2 == IF buys THEN n ELSE IF sells THEN 0 ELSE shares
                    equity2 == current_equity(capital2, shares2, price)
                IN  /\ capital' = capital2
                    /\ shares' = shares2
                    /\ trades' =
                         IF buys THEN Append(trades, BuyTrade(date, n, price, cost, capital2))
                         ELSE IF sells
                              THEN Append(trades, SellTrade(date, shares, price, proceeds, capital2))
                              ELSE trades
                    /\ equity' = Append(equity, equity2)
                    /\ positions' = Append(positions,
                         [date |-> date, shares |-> shares2, price |-> price,
                          equity |-> equity2, capital |-> capital2,
                          market_value |-> shares2 * price * Scale])
                    /\ i' = i + 1
                    /\ UNCHANGED <<pc, error>>
    /\ UNCHANGED <<heap, data, signals, call, ncalls, config, result>>

\* the code after the loop: the final position is sold at data['Close'].iloc[-1],
\* and the metrics of the equity curve and the trade log are returned
FinalLiquidation ==
    /\ pc = "loop"
    /\ i = Len(heap[signals].Close)
    /\ IF LiquidationGuard(shares)
       THEN LET final_price == Last(heap[data].Close)
                proceeds == Proceeds(shares, final_price, config)
            IN  /\ capital' = capital + proceeds
                /\ trades' = Append(trades,
                     SellTrade(Len(heap[data].Close), shares, final_price, proceeds,
                               capital + proceeds))
       ELSE UNCHANGED <<capital, trades>>
    /\ result' = calculate_performance_metrics(equity, trades', config)
    /\ pc' = "done"
    /\ UNCHANGED <<heap, data, signals, call, ncalls, error, config, i, shares, equity, positions>>

Next == LoopBody \/ FinalLiquidation

Spec == Init /\ [][Next]_vars

\* ------------------------------------------------------- the strategy calls
\* a price DataFrame as the caller holds it: the Close column alone
PriceFrame(c) == [Close |-> c, cols |-> {}, col |-> [name \in {} |-> <<>>]]

PriceSeries(maxlen) == UNION { [1..n -> Prices] : n \in 0..maxlen }

\* the caller holds a price DataFrame and has called nothing yet; the locals
\* of execute_backtest do not exist yet (they are set by EnterBacktest)
InitCaller(series, configs) ==
    /\ heap \in [{1} -> {PriceFrame(c) : c \in series}]
    /\ data = 1
    /\ signals = None
    /\ call = NoCall
    /\ ncalls = 0
    /\ error = "none"
    /\ config \in configs
    /\ pc = "caller"
    /\ i = 0
    /\ capital = 0
    /\ shares = 0
    /\ trades = <<>>
    /\ equity = <<>>
    /\ positions = <<>>
    /\ result = NoResult

\* signals = strategies.execute_strategy(c.strategy_name, data, c.params), c in calls
ExecuteStrategy(calls) ==
    /\ pc = "caller"
    /\ ncalls < MaxCalls
    /\ \E c \in calls :
         LET r == execute_strategy(c.strategy_name, heap, data, c.params)
         IN  /\ call' = c
             /\ heap' = r.heap
             /\ error' = r.error
             /\ signals' = IF r.error = "none" THEN r.ret ELSE signals
             /\ pc' = IF r.error = "none" THEN pc ELSE "raised"
    /\ ncalls' = ncalls + 1
    /\ UNCHANGED <<data, config, i, capital, shares, trades, equity, positions, result>>

\* entry of execute_backtest(data, signals, config): the locals are initialised
EnterBacktest ==
    /\ pc = "caller"
    /\ signals # None
    /\ pc' = "loop"
    /\ i' = 0
    /\ capital' = config.initial_capital * Scale
    /\ shares' = 0
    /\ trades' = <<>>
    /\ equity' = <<config.initial_capital * Scale>>
    /\ positions' = <<>>
    /\ UNCHANGED <<heap, data, signals, call, ncalls, error, config, result>>

DefaultConfig ==
    [initial_capital |-> 100, commission |-> default_commission, slippage |-> default_slippage]

Params1(k1, v1) == [key \in {k1} |-> v1]
Params2(k1, v1, k2, v2) == [key \in {k1, k2} |-> IF key = k1 THEN v1 ELSE v2]
Params3(k1, v1, k2, v2, k3, v3) ==
    [key \in {k1, k2, k3} |-> IF key = k1 THEN v1 ELSE IF key = k2 THEN v2 ELSE v3]
Call(name, params) == [strategy_name |-> name, params |-> params]

\* one call of each registered strategy, with windows that fit the short
\* series, and one call with a name that is not registered
StrategyCalls ==
    { Call("moving-average-crossover", Params2("fast_period", 1, "slow_period", 2)),
      Call("mean-reversion", Params3("bb_period", 2, "bb_std", 1, "rsi_period", 2)),
      Call("momentum", Params1("lookback_period", 1)),
      Call("bollinger-bands", Params2("period", 2, "std", 1)),
      Call("rsi-divergence", Params2("period", 2, "divergence_period", 1)),
      Call("macd-crossover", Params3("fast", 1, "slow", 2, "signal", 2)),
      Call("moving-average", NoParams) }

CallStrategy == ExecuteStrategy(StrategyCalls)

InitStrategy == InitCaller(PriceSeries(MaxLen), {DefaultConfig})

NextStrategy == CallStrategy

\* any sequence of up to MaxCalls strategy calls on one price DataFrame
SpecStrategy == InitStrategy /\ [][NextStrategy]_vars

\* moving_average_crossover with every pair of windows up to MaxPeriod, and
\* with no parameters (the default windows)
CrossoverCalls ==
    { Call("moving-average-crossover", Params2("fast_period", f, "slow_period", w)) :
      f \in 1..MaxPeriod, w \in 1..MaxPeriod }
    \cup { Call("moving-average-crossover", NoParams) }

CallCrossover == ncalls = 0 /\ ExecuteStrategy(CrossoverCalls)

InitCrossover == InitCaller(PriceSeries(MaxCrossLen), {DefaultConfig})

NextCrossover == CallCrossover

\* one moving_average_crossover call on a price DataFrame
SpecCrossover == InitCrossover /\ [][NextCrossover]_vars

\* Scenario B: a constant price series, bollinger_bands with period 20 and
\* std 2 (given, or taken as the defaults), then execute_backtest
ConstantSeries == { [t \in 1..ScenarioBars |-> p] : p \in Prices }

BollingerCalls ==
    { Call("bollinger-bands", Params2("period", bb_default_period, "std", bb_default_std)),
      Call("bollinger-bands", NoParams) }

CallBollinger == ExecuteStrategy(BollingerCalls)

InitScenarioB == InitCaller(ConstantSeries, Configs)

NextScenarioB == CallBollinger \/ EnterBacktest \/ LoopBody \/ FinalLiquidation

SpecScenarioB == InitScenarioB /\ [][NextScenarioB]_vars

\* Scenario A: a strictly increasing price series of ScenarioBars bars (from
\* ScenarioStarts, rising by a step and by a multiple of the square of the bar
\* number), moving_average_crossover with the scenario's windows, then
\* execute_backtest
ScenarioStarts == {-5, 1, 2}
ScenarioSteps == {1, 2}
ScenarioCurvatures == {0, 1}

IncreasingSeries ==
    { [t \in 1..ScenarioBars |-> a + d * (t - 1) + c * (t - 1) * (t - 1)] :
      a \in ScenarioStarts, d \in ScenarioSteps, c \in ScenarioCurvatures }

ScenarioACalls ==
    { Call("moving-average-crossover",
           Params2("fast_period", ScenarioFast, "slow_period", ScenarioSlow)) }

CallScenarioA == ncalls = 0 /\ ExecuteStrategy(ScenarioACalls)

InitScenarioA == InitCaller(IncreasingSeries, Configs)

NextScenarioA == CallScenarioA \/ EnterBacktest \/ LoopBody \/ FinalLiquidation

SpecScenarioA == InitScenarioA /\ [][NextScenarioA]_vars

\* calculate_performance_metrics alone, on any equity curve over EquityLevels
\* (in whole units of money) and any trade log over TradeRecords
EquityLevels == {-1, 0, 1, 2, 3}

EquityCurves == UNION { [1..n -> {v * Scale : v \in EquityLevels}] : n \in 1..MaxCurve }

ProceedsLevels == {-1, 0, 1}

TradeRecords ==
    { BuyTrade(1, 1, 1, Scale, Scale) }
    \cup { SellTrade(2, 1, 1, v * Scale, v * Scale) : v \in ProceedsLevels }

TradeLogs == UNION { [1..n -> TradeRecords] : n \in 0..MaxTrades }

InitMetrics ==
    /\ heap = <<>>
    /\ data = None
    /\ signals = None
    /\ call = NoCall
    /\ ncalls = 0
    /\ error = "none"
    /\ config \in {c \in Configs : c.commission = default_commission}
    /\ pc = "metrics"
    /\ i = 0
    /\ capital = 0
    /\ shares = 0
    /\ trades \in TradeLogs
    /\ equity \in EquityCurves
    /\ positions = <<>>
    /\ result = NoResult

\* results = calculate_performance_metrics(equity, trades, positions, config)
ComputeMetrics ==
    /\ pc = "metrics"
    /\ result' = calculate_performance_metrics(equity, trades, config)
    /\ pc' = "done"
    /\ UNCHANGED <<heap, data, signals, call, ncalls, error, config, i, capital, shares,
                   trades, equity, positions>>

NextMetrics == ComputeMetrics

SpecMetrics == InitMetrics /\ [][NextMetrics]_vars

\* ================================================================ claims
\* the Close and signal columns execute_backtest reads, and the bar count
Close == heap[signals].Close
SignalColumn == heap[signals].col.signal
NBars == Len(Close)
\* this step appends one trade of the given type
Appended(type) == Len(trades') = Len(trades) + 1 /\ Last(trades').type = type

\* C1: the number of shares held is a non-negative integer after every bar
\* and after the final liquidation step, and holdings only ever grow from a
\* flat position (a purchase never adds to an existing holding).
C1_SharesNonNegativeSingleLong ==
    /\ [](shares \in Nat)
    /\ [][shares' > shares => shares = 0]_vars

\* C1 witness: +1 on two bars in a row, bought once, still holding that lot
C1_Witness ==
    /\ i >= 2 /\ SignalColumn[1] = 1 /\ SignalColumn[2] = 1
    /\ Len(trades) = 1 /\ shares = trades[1].shares /\ shares > 0

\* C2: a BUY is appended only from a state with no shares and a SELL only
\* from a state with shares > 0, and the trade log alternates BUY, SELL,
\* BUY, SELL ... starting with a BUY.
C2_TradesAlternate ==
    /\ [](\A k \in 1..Len(trades) : trades[k].type = IF k % 2 = 1 THEN "BUY" ELSE "SELL")
    /\ [][/\ Appended("BUY") => shares = 0
          /\ Appended("SELL") => shares > 0]_vars

\* C2 witness: BUY, SELL, BUY and the terminal SELL
C2_Witness == Len(trades) = 4 /\ pc = "done"

\* C3: when the run finishes with a position open after the last bar, one
\* SELL of exactly the held shares at the final close is appended; the
\* finished log is empty or ends with a SELL, has as many BUYs as SELLs, and
\* each SELL sells the share count of the BUY before it.
C3_EndsFlat ==
    /\ [](pc = "done" =>
            /\ trades = <<>> \/ Last(trades).type = "SELL"
            /\ Cardinality({k \in 1..Len(trades) : trades[k].type = "BUY"})
                 = Cardinality({k \in 1..Len(trades) : trades[k].type = "SELL"})
            /\ \A k \in 1..Len(trades) : trades[k].type = "SELL" =>
                 k > 1 /\ trades[k - 1].type = "BUY" /\ trades[k].shares = trades[k - 1].shares)
    /\ [][(pc = "loop" /\ pc' = "done" /\ shares > 0) =>
            /\ Appended("SELL")
            /\ SubSeq(trades', 1, Len(trades)) = trades
            /\ Last(trades').shares = shares
            /\ Last(trades').price = Close[NBars]]_vars

\* C3 witness: a finished run whose last bar left a position open
C3_Witness ==
    /\ pc = "done" /\ NBars > 0 /\ Last(positions).shares > 0
    /\ Last(trades).type = "SELL" /\ Last(trades).shares = Last(positions).shares

\* C4: every SELL, signal-driven or forced, sells the full holding at the
\* close of its bar and leaves cash = cash before + shares * price *
\* (1 - commission - slippage), which is the capital the trade records.
C4_SellProceeds ==
    [][Appended("SELL") =>
        LET t == Last(trades')
        IN  /\ t.shares = shares
            /\ t.price = Close[i']
            /\ t.capital = capital + shares * t.price * (Scale - config.commission - config.slippage)
            /\ capital' = t.capital]_vars

\* C4 witness: a signal-driven SELL and a forced SELL in one run with fees
C4_Witness ==
    /\ pc = "done" /\ Len(trades) = 4
    /\ trades[2].date < NBars /\ trades[4].date = NBars
    /\ config.commission > 0 /\ config.slippage > 0

\* C5: on a +1 bar while flat, with q = floor(capital * 0.95 / close): if
\* q > 0 a BUY of q shares is appended, shares become q and cash falls by
\* q * close * (1 + commission + slippage); otherwise no trade is appended
\* and cash and shares stay.  (A close of 0 has no quotient: the bar raises,
\* and nothing is appended or changed.)
C5_BuySizing ==
    [][(pc = "loop" /\ i < NBars /\ SignalColumn[i + 1] = 1 /\ shares = 0) =>
        LET price == Close[i + 1]
            q == FloorDiv(capital * 19, 20 * Scale * price)
        IN  IF price = 0
            THEN pc' = "raised" /\ trades' = trades /\ capital' = capital /\ shares' = shares
            ELSE IF q > 0
                 THEN /\ Appended("BUY")
                      /\ SubSeq(trades', 1, Len(trades)) = trades
                      /\ Last(trades').shares = q
                      /\ Last(trades').price = price
                      /\ shares' = q
                      /\ capital' = capital - q * price * (Scale + config.commission + config.slippage)
                 ELSE trades' = trades /\ capital' = capital /\ shares' = shares]_vars

\* C5 witness: 100 of capital buys floor(95 / 2) = 47 shares at 2, with fees
C5_Witness ==
    /\ i = 1 /\ Len(trades) = 1 /\ trades[1].type = "BUY" /\ trades[1].shares = 47
    /\ config.commission + config.slippage = 15
    /\ capital = 100 * Scale - 47 * 2 * (Scale + 15)

\* C6: the equity curve of an N-bar run has N + 1 entries, starts with the
\* initial capital, and bar i's entry is the capital after the bar plus the
\* shares after the bar times the bar's close.
C6_EquityCurve ==
    /\ [](/\ Len(equity) = i + 1
          /\ equity[1] = config.initial_capital * Scale
          /\ pc = "done" => Len(equity) = NBars + 1)
    /\ [][IF i' = i + 1
          THEN equity' = Append(equity, capital' + shares' * Close[i'] * Scale)
          ELSE equity' = equity]_vars

\* C6 witness: a finished 3-bar run that held shares after its second bar
C6_Witness ==
    /\ pc = "done" /\ NBars = 3 /\ Len(equity) = 4
    /\ positions[2].shares > 0 /\ equity[3] # positions[2].capital

\* C7: a strategy call leaves the caller's price DataFrame as it was, does
\* not change the DataFrame an earlier call returned, and returns an object
\* that is neither the input nor an earlier result.
C7_StrategiesArePure ==
    [][(ncalls' = ncalls + 1 /\ error' = "none") =>
        /\ heap'[data] = heap[data]
        /\ signals # None => heap'[signals] = heap[signals]
        /\ signals' # data
        /\ signals # None => signals' # signals]_vars

\* C8: execute_strategy with a name that is not registered raises ValueError
\* and computes nothing: no DataFrame changes and nothing is returned.
C8_UnknownStrategyRaises ==
    [][(ncalls' = ncalls + 1 /\ call'.strategy_name \notin
          {"moving-average-crossover", "mean-reversion", "momentum", "bollinger-bands",
           "rsi-divergence", "macd-crossover"}) =>
        /\ error' = "ValueError"
        /\ pc' = "raised"
        /\ heap' = heap
        /\ signals' = signals]_vars

\* C8 witness: the unknown name is given after a strategy has run; the
\* columns of that first run are all the DataFrame holds
C8_Witness ==
    /\ error = "ValueError" /\ call.strategy_name = "moving-average" /\ ncalls = 2
    /\ signals = data /\ "signal" \in heap[data].cols /\ Len(heap[data].Close) = MaxLen

\* C9: after moving_average_crossover, a moving average is undefined exactly
\* in its warm-up window and is the window's mean elsewhere; where both
\* averages are defined the signal is the sign of fast_ma - slow_ma, and
\* where either is undefined the signal is 0.
C9_CrossoverSign ==
    (call.strategy_name = "moving-average-crossover" /\ error = "none") =>
        LET df == heap[signals]
            fast_period == IF "fast_period" \in DOMAIN call.params
                           THEN call.params["fast_period"] ELSE 10
            slow_period == IF "slow_period" \in DOMAIN call.params
                           THEN call.params["slow_period"] ELSE 20
            IsMean(v, w, t) ==
                IF t < w THEN v.k = "nan"
                ELSE v.k = "num" /\ v.n * w = v.d * SumRange(df.Close, t - w + 1, t)
        IN  \A t \in 1..Len(df.Close) :
              LET f == df.col.fast_ma[t]
                  w == df.col.slow_ma[t]
              IN  /\ IsMean(f, fast_period, t)
                  /\ IsMean(w, slow_period, t)
                  /\ df.col.signal[t] =
                       IF f.k = "nan" \/ w.k = "nan" THEN 0
                       ELSE Sign(f.n * w.d - w.n * f.d)

\* C9 witness: one run with a warm-up bar, a +1 bar, a -1 bar and a bar
\* where the two averages are defined and equal
C9_Witness ==
    /\ call.strategy_name = "moving-average-crossover" /\ error = "none"
    /\ LET df == heap[signals]
           T == 1..Len(df.Close)
       IN  /\ \E t \in T : IsNaN(df.col.slow_ma[t]) /\ ~IsNaN(df.col.fast_ma[t])
           /\ \E t \in T : df.col.signal[t] = 1
           /\ \E t \in T : df.col.signal[t] = -1
           /\ \E t \in T : /\ df.col.signal[t] = 0
                           /\ ~IsNaN(df.col.slow_ma[t]) /\ ~IsNaN(df.col.fast_ma[t])
                           /\ call.params["fast_period"] # call.params["slow_period"]

\* C10: on a constant price series, after bollinger_bands(period 20, std 2)
\* the close is at both bands on every bar past the warm-up (both the buy
\* and the sell condition hold), the signal there is -1, and execute_backtest
\* makes no trade.
C10_ScenarioB ==
    (signals # None) =>
        LET df == heap[signals]
        IN  /\ \A t \in 1..Len(df.Close) :
                 IF t < 20 THEN df.col.signal[t] = 0
                 ELSE /\ df.col.bb_middle[t] = Num(df.Close[t], 1)
                      /\ df.col.bb_std[t] = Sqrt(0, 1)
                      /\ AtOrBelowLower(df.Close, 20, 2, t)
                      /\ AtOrAboveUpper(df.Close, 20, 2, t)
                      /\ df.col.signal[t] = -1
            /\ pc \in {"loop", "done"} => trades = <<>>

\* C10 witness: the finished backtest of the scenario, with capital enough
\* to buy at the price
C10_Witness ==
    /\ pc = "done" /\ signals # None /\ trades = <<>>
    /\ Len(heap[signals].Close) = ScenarioBars /\ Len(equity) = ScenarioBars + 1
    /\ heap[signals].Close[1] = 2 /\ config.initial_capital = 100
    /\ heap[signals].col.signal[ScenarioBars] = -1

\* the first bar where the fast moving average exceeds the slow one (0: none)
FirstCrossBar ==
    LET df == heap[signals]
        up == {t \in 1..Len(df.Close) : Gt(df.col.fast_ma[t], df.col.slow_ma[t])}
    IN  IF up = {} THEN 0 ELSE CHOOSE t \in up : \A u \in up : t <= u

\* the finished backtest logged one BUY, at the first bar where the fast
\* average exceeds the slow one, and one SELL, the liquidation after the last
\* bar (which leaves `shares` as bought); with no commission and no slippage
\* the reported final capital exceeds the initial capital
ScenarioAOutcome ==
    /\ FirstCrossBar > 0
    /\ Len(trades) = 2
    /\ trades[1].type = "BUY" /\ trades[1].date = FirstCrossBar
    /\ trades[2].type = "SELL" /\ trades[2].date = NBars
    /\ Len(equity) = NBars + 1 /\ shares = trades[1].shares /\ shares > 0
    /\ (config.commission = 0 /\ config.slippage = 0) =>
           result.summary.final_capital > config.initial_capital * Scale

\* C11 as stated: on every strictly increasing series of the scenario the
\* finished backtest has exactly one BUY, at the first bar where the fast
\* average exceeds the slow one, and exactly one SELL, the forced liquidation
\* at the last bar, and without fees the final equity exceeds the initial capital.
C11_ScenarioA_AsStated == (pc = "done") => ScenarioAOutcome

\* C11: on a strictly increasing series whose price at the first bar where
\* the fast average exceeds the slow one is positive and is paid at least
\* once by 95% of the initial capital, the finished backtest has exactly one
\* BUY, at that bar, and exactly one SELL, the forced liquidation at the last
\* bar, and without fees the final equity exceeds the initial capital.
C11_ScenarioA ==
    (/\ pc = "done"
     /\ FirstCrossBar > 0
     /\ Close[FirstCrossBar] > 0
     /\ 19 * config.initial_capital >= 20 * Close[FirstCrossBar]) => ScenarioAOutcome

\* C11 witness: a finished fee-free run of the scenario with capital enough,
\* bought at bar ScenarioSlow and liquidated at the last bar with a gain
C11_Witness ==
    /\ pc = "done" /\ NBars = ScenarioBars
    /\ FirstCrossBar > 0 /\ Close[FirstCrossBar] > 0
    /\ 19 * config.initial_capital >= 20 * Close[FirstCrossBar]
    /\ config.commission = 0 /\ config.slippage = 0
    /\ Len(trades) = 2 /\ trades[1].date = ScenarioSlow /\ trades[2].date = ScenarioBars
    /\ result.summary.final_capital > config.initial_capital * Scale

\* a value that is the number 0
IsZero(v) == v.k = "num" /\ v.n = 0

\* the curve is positive and never falls
PositiveNonDecreasing(eq) ==
    /\ \A t \in 1..Len(eq) : eq[t] > 0
    /\ \A t \in 2..Len(eq) : eq[t] >= eq[t - 1]

\* C12: for a positive equity curve that never falls the reported
\* max_drawdown is 0 and the calmar_ratio is 0 (the zero-drawdown fallback,
\* not a division by zero), in `metrics` and in `summary`; for every curve
\* max_drawdown is not positive, and it is a number <= 0 when the curve
\* starts positive.
C12_ScenarioC ==
    result.returned =>
        /\ PositiveNonDecreasing(equity) =>
              /\ IsZero(result.metrics.max_drawdown) /\ IsZero(result.summary.max_drawdown)
              /\ IsZero(result.metrics.calmar_ratio) /\ IsZero(result.summary.calmar_ratio)
        /\ ~Gt(result.metrics.max_drawdown, Num(0, 1))
        /\ ~Gt(result.summary.max_drawdown, Num(0, 1))
        /\ equity[1] > 0 => Le(result.metrics.max_drawdown, Num(0, 1))

\* C12 witness: the metrics of a positive curve that rises and never falls,
\* with a non-zero total return, a zero drawdown and a zero calmar_ratio
C12_Witness ==
    /\ result.returned /\ pc = "done" /\ signals = None
    /\ Len(equity) = MaxCurve /\ PositiveNonDecreasing(equity)
    /\ equity[1] < Last(equity)
    /\ ~IsZero(result.summary.total_return)
    /\ IsZero(result.metrics.max_drawdown) /\ IsZero(result.metrics.calmar_ratio)

\* the places of the SELL trades in the returned log, and of those with proceeds > 0
SellPlaces == {k \in 1..Len(trades) : trades[k].type = "SELL"}
WinPlaces == {k \in SellPlaces : trades[k].proceeds > 0}

\* C13: the returned win rate is the number of SELL trades with proceeds > 0
\* over the number of SELL trades, and 0 when there is no SELL (the summary
\* holds it times 100, and the number of SELL trades as total_trades); in a
\* backtest over positive prices with commission + slippage < 1 and at least
\* one SELL the win rate is 1, also when a SELL price is below the price of
\* the BUY before it.
C13_WinRate ==
    result.returned =>
        LET wr == result.metrics.win_rate
            n == Cardinality(SellPlaces)
            w == Cardinality(WinPlaces)
        IN  /\ wr.k = "num"
            /\ IF n = 0 THEN wr.n = 0 ELSE wr.n * n = wr.d * w
            /\ result.summary.win_rate.k = "num"
            /\ result.summary.win_rate.n * wr.d = 100 * wr.n * result.summary.win_rate.d
            /\ result.summary.total_trades = n
            /\ (/\ \A t \in 1..NBars : Close[t] > 0
                /\ config.commission + config.slippage < Scale
                /\ n > 0) => wr = Num(1, 1)

\* C13 witness: positive prices and fees, one BUY and one SELL at a lower
\* price, whose proceeds are positive and below the cost: win rate 1
C13_Witness ==
    /\ result.returned /\ signals # None
    /\ \A t \in 1..NBars : Close[t] > 0
    /\ config.commission + config.slippage > 0
    /\ Len(trades) = 2 /\ trades[2].type = "SELL"
    /\ trades[2].price < trades[1].price
    /\ trades[2].proceeds > 0 /\ trades[2].proceeds < trades[1].cost
    /\ result.metrics.win_rate = Num(1, 1) /\ result.summary.total_trades = 1

\* the RSI window of the last call, when it was mean_reversion or rsi_divergence
RsiPeriod ==
    IF call.strategy_name = "mean-reversion"
    THEN Get(call.params, "rsi_period", mr_default_rsi_period)
    ELSE Get(call.params, "period", rd_default_period)

\* C14: after mean_reversion or rsi_divergence, at every bar past the warm-up
\* whose rolling average loss is 0 (the average gain positive or 0 too) the
\* stored RSI is a finite number, not an infinite or undefined value.
C14_RsiDefinedOnZeroLoss ==
    (/\ call # NoCall
     /\ call.strategy_name \in {"mean-reversion", "rsi-divergence"}
     /\ error = "none") =>
        LET df == heap[signals]
        IN  \A t \in RsiPeriod..Len(df.Close) :
              SumRange(loss_of(df.Close), t - RsiPeriod + 1, t) = 0 => df.col.rsi[t].k = "num"

\* C15: when the returned trade log is not empty, the last value of the
\* equity curve, reported as final_capital, is the capital recorded in the
\* last SELL of the log (after a forced liquidation too, so that it carries
\* the liquidation's commission and slippage).
C15_FinalCapitalIsLastSellCapital ==
    (result.returned /\ result.trades # <<>>) =>
        /\ Last(result.trades).type = "SELL"
        /\ Last(result.equity) = Last(result.trades).capital
        /\ result.summary.final_capital = Last(result.trades).capital

====
